---- MODULE Spec2Model ----
(***************************************************************************)
(* Interaction/state logic of the dipole simulator (src/dipole_sim/app.py, *)
(* class App): the InteractionState record, the marker handles, the mode   *)
(* selector, the amplitude slider, the status label, and the four event    *)
(* handlers (slice click, amplitude change, reset, view-mode change).      *)
(*                                                                         *)
(* Every handler runs to completion on the single event-dispatch thread,   *)
(* so each is one action.  What happens inside a handler (the busy flag at *)
(* each mutation, every call of plot_evoked with the state it was handed)  *)
(* is recorded in the history variable ev, which describes the last event. *)
(* Rendering (plot_slice, topomaps, crosshair cursor) carries no state the *)
(* properties read and is left out.                                        *)
(***************************************************************************)
EXTENDS Integers, Sequences, FiniteSets

VARIABLES state, widget, markers, ev

vars == <<state, widget, markers, ev>>

(* ---------------------------- bounds ----------------------------------- *)

\* Click coordinates (mm, relative to the default slice position) are drawn
\* from 0..MaxCoord.
MaxCoord == 1

\* Amplitude-slider inputs are the default position and the MaxAmpSteps
\* slider positions above it.
MaxAmpSteps == 1

(* --------------------------- constants --------------------------------- *)

Axes == {"x", "y", "z"}

Coords == 0 .. MaxCoord

\* Python's None for a coordinate, and a coordinate that is set.
None == <<>>

Some(v) == <<v>>

\* IntSlider(min=5, max=100, step=5)
SliderMin == 5

SliderMax == 100

SliderStep == 5

SliderValues == {v \in SliderMin .. SliderMax : v % SliderStep = 0}

\* state['dipole_amplitude'] = 50e-9: the amplitude in nAm of the literal.
DefaultAmp_nAm == 50

AmpInputs ==
    {v \in SliderValues :
        /\ v >= DefaultAmp_nAm
        /\ v <= DefaultAmp_nAm + SliderStep * MaxAmpSteps}

ModeOptions == {"Slice Browser", "Set Dipole Origin", "Set Dipole Orientation"}

Modes == {"slice_browser", "set_dipole_pos", "set_dipole_ori"}

(* ------------------- IEEE-754 double arithmetic ------------------------ *)
(* An amplitude is a double.  It is written [nAm |-> v, ulps |-> k]: the   *)
(* double k units in the last place above the double nearest to v * 10^-9  *)
(* (the value of the literal "ve-9").                                      *)

\* The slider values v for which the product v * 1e-9 rounds to one ulp
\* above the literal ve-9 (for the others the two doubles are the same).
ProductAboveLiteral == {15, 25, 30, 45, 50, 60, 75, 85, 90, 100}

\* The slider values v for which (literal ve-9) * 1e9 rounds below v.
ScaledBelowInteger == {15, 30, 60}

\* change['new'] * 1e-9
times_1e_minus9(v) ==
    [nAm |-> v, ulps |-> IF v \in ProductAboveLiteral THEN 1 ELSE 0]

\* int(amp * 1e9), also the CInt cast of amp * 1e9 by the slider's value trait:
\* truncation toward zero.
int_times_1e9(amp) ==
    IF amp.ulps = 0 /\ amp.nAm \in ScaledBelowInteger
    THEN amp.nAm - 1
    ELSE amp.nAm

(* --------------------------- construction ------------------------------ *)

init_state ==
    [slice_coord      |-> [x |-> [val |-> 0, min |-> -60, max |-> 60],
                           y |-> [val |-> 0, min |-> -70, max |-> 70],
                           z |-> [val |-> 0, min |-> -20, max |-> 60]],
     crosshair_pos    |-> [x |-> 0, y |-> 0, z |-> 0],
     dipole_pos       |-> [x |-> None, y |-> None, z |-> None],
     dipole_ori       |-> [x |-> None, y |-> None, z |-> None],
     dipole_amplitude |-> [nAm |-> DefaultAmp_nAm, ulps |-> 0],
     label_text       |-> [x |-> 0, y |-> 0, z |-> 0],
     dipole_arrows    |-> <<>>,
     mode             |-> "slice_browser",
     updating         |-> FALSE]

init_widget ==
    [label_updating   |-> "Ready.",
     mode_selector    |-> "Slice Browser",
     amplitude_slider |-> [value    |-> int_times_1e9(init_state.dipole_amplitude),
                           disabled |-> FALSE]]

init_markers ==
    [dipole_pos |-> [x |-> None, y |-> None, z |-> None],
     dipole_ori |-> [x |-> None, y |-> None, z |-> None]]

\* The App object as a handler sees it, with the history of the handler so
\* far: calls (the state handed to each plot_evoked call), busy_seen (the
\* busy flag at each mutation of the state record or the markers other than
\* the flag's own toggle, and at each plot_evoked call), drawn (the glyphs
\* the marker/arrow renderer was asked to draw), raised (an exception of
\* plot_evoked ended the handler).
App(s, w, m) ==
    [state |-> s, widget |-> w, markers |-> m,
     calls |-> <<>>, busy_seen |-> {}, drawn |-> {}, raised |-> FALSE]

\* Records the busy flag at a mutation.
observe(self) ==
    [self EXCEPT !.busy_seen = @ \cup {self.state.updating}]

(* ----------------- collaborators outside app.py ----------------------- *)
(* slice.py, callbacks.py, dipole.py and evoked_field.py are imported by   *)
(* app.py (lines 10-20).  Their effect on the state is taken from the      *)
(* system description: sections 2, 4.1, 4.2 and 4.3.                       *)

\* The names of the two in-plane axes of the slice view of one axis.
get_axis_names_from_slice(slice_view) ==
    CASE slice_view = "x" -> [x_idx |-> "y", y_idx |-> "z"]
      [] slice_view = "y" -> [x_idx |-> "x", y_idx |-> "z"]
      [] slice_view = "z" -> [x_idx |-> "x", y_idx |-> "y"]

\* browsing: moves the crosshair/slice position to the clicked location.
handle_click_in_slice_browser_mode(self, x, y, x_idx, y_idx) ==
    LET s == observe(self)
    IN  [s EXCEPT !.state.slice_coord[x_idx].val = x,
                  !.state.slice_coord[y_idx].val = y,
                  !.state.crosshair_pos[x_idx] = x,
                  !.state.crosshair_pos[y_idx] = y,
                  !.state.label_text[x_idx] = x,
                  !.state.label_text[y_idx] = y]

\* settingPosition: the clicked 2-D point plus the third axis's current
\* browse coordinate, written to dipolePosition.
handle_click_in_set_dipole_pos_mode(self, x_idx, y_idx, remaining_idx, x, y) ==
    LET s == observe(self)
    IN  [s EXCEPT !.state.dipole_pos =
            [a \in Axes |->
                IF a = x_idx THEN Some(x)
                ELSE IF a = y_idx THEN Some(y)
                ELSE IF a = remaining_idx
                     THEN Some(s.state.slice_coord[remaining_idx].val)
                ELSE @[a]]]

\* settingOrientation: same resolution, written to dipoleOrientation.
handle_click_in_set_dipole_ori_mode(self, x_idx, y_idx, remaining_idx, x, y) ==
    LET s == observe(self)
    IN  [s EXCEPT !.state.dipole_ori =
            [a \in Axes |->
                IF a = x_idx THEN Some(x)
                ELSE IF a = y_idx THEN Some(y)
                ELSE IF a = remaining_idx
                     THEN Some(s.state.slice_coord[remaining_idx].val)
                ELSE @[a]]]

\* A rendering handle (a matplotlib artist).
Handle == <<"artist">>

plot_dipole_pos_marker(self) ==
    [observe(self) EXCEPT !.markers.dipole_pos = [a \in Axes |-> Handle],
                          !.drawn = @ \cup {"dipole_pos"}]

plot_dipole_ori_marker(self) ==
    [observe(self) EXCEPT !.markers.dipole_ori = [a \in Axes |-> Handle],
                          !.drawn = @ \cup {"dipole_ori"}]

draw_dipole_arrows(self) ==
    [observe(self) EXCEPT !.state.dipole_arrows = <<Handle, Handle, Handle>>,
                          !.drawn = @ \cup {"arrows"}]

remove_dipole_arrows(self) ==
    [observe(self) EXCEPT !.state.dipole_arrows = <<>>]

remove_dipole_pos_markers(self) ==
    [observe(self) EXCEPT !.markers.dipole_pos = [a \in Axes |-> None]]

remove_dipole_ori_markers(self) ==
    [observe(self) EXCEPT !.markers.dipole_ori = [a \in Axes |-> None]]

\* The external forward solve and topomap refresh.  It reads the state and
\* the widgets it is handed; it returns, or raises (outcome = "raise").
plot_evoked(self, outcome) ==
    [observe(self) EXCEPT
        !.calls = Append(@, [dipole_pos       |-> self.state.dipole_pos,
                             dipole_ori       |-> self.state.dipole_ori,
                             dipole_amplitude |-> self.state.dipole_amplitude,
                             updating         |-> self.state.updating,
                             slider_disabled  |->
                                 self.widget.amplitude_slider.disabled]),
        !.raised = (outcome = "raise")]

(* ------------------------------ app.py --------------------------------- *)

\* App._toggle_updating_state
toggle_updating_state(self) ==
    LET u == ~self.state.updating
    IN  [self EXCEPT !.state.updating = u,
                     !.widget.label_updating =
                         IF u THEN "Updating ..." ELSE "Ready."]

\* Mutant of dipole_ready: the comparison of the two points is left out.
dipole_ready_without_comparison(s) ==
    /\ s.dipole_pos.x # None
    /\ s.dipole_ori.x # None

\* The readiness test of the field-evaluation trigger.
dipole_ready(s) ==
    /\ s.dipole_pos.x # None
    /\ s.dipole_ori.x # None
    /\ s.dipole_pos # s.dipole_ori

\* Mutant of plot_dipole_markers_and_arrow: the markers wait until both the
\* position and the orientation are set.
plot_dipole_markers_and_arrow_when_both(self) ==
    LET both == self.state.dipole_pos.x # None /\ self.state.dipole_ori.x # None
        s1 == IF both THEN plot_dipole_pos_marker(self) ELSE self
        s2 == IF both THEN plot_dipole_ori_marker(s1) ELSE s1
    IN  IF dipole_ready(s2.state) THEN draw_dipole_arrows(s2) ELSE s2

\* App._plot_dipole_markers_and_arrow
plot_dipole_markers_and_arrow(self) ==
    LET s1 == IF self.state.dipole_pos.x # None
              THEN plot_dipole_pos_marker(self) ELSE self
        s2 == IF s1.state.dipole_ori.x # None
              THEN plot_dipole_ori_marker(s1) ELSE s1
    IN  IF dipole_ready(s2.state) THEN draw_dipole_arrows(s2) ELSE s2

\* Which slice (axis) was clicked in: the axis whose figure holds in_ax.
clicked_axis(in_ax) == CHOOSE axis \in Axes : axis = in_ax

\* Mutant of remaining_idx_of: an in-plane axis is taken for the third one.
remaining_idx_in_plane(axis) == get_axis_names_from_slice(axis).x_idx

\* remaining_idx = axis
remaining_idx_of(axis) == axis

\* Mutant of click_dispatch: the browsing branch is missing, and a browsing
\* click falls into the position branch.
click_dispatch_without_browsing(self, axis, x, y) ==
    LET idx == get_axis_names_from_slice(axis)
    IN  IF self.state.mode = "set_dipole_ori"
        THEN handle_click_in_set_dipole_ori_mode(self, idx.x_idx, idx.y_idx,
                                                 axis, x, y)
        ELSE handle_click_in_set_dipole_pos_mode(self, idx.x_idx, idx.y_idx,
                                                 axis, x, y)

\* The dispatch on state['mode'] of App._handle_slice_click.
click_dispatch(self, axis, x, y) ==
    LET idx == get_axis_names_from_slice(axis)
        remaining_idx == remaining_idx_of(axis)
    IN  CASE self.state.mode = "slice_browser" ->
                handle_click_in_slice_browser_mode(self, x, y,
                                                   idx.x_idx, idx.y_idx)
          [] self.state.mode = "set_dipole_pos" ->
                handle_click_in_set_dipole_pos_mode(self, idx.x_idx, idx.y_idx,
                                                    remaining_idx, x, y)
          [] self.state.mode = "set_dipole_ori" ->
                handle_click_in_set_dipole_ori_mode(self, idx.x_idx, idx.y_idx,
                                                    remaining_idx, x, y)
          [] OTHER -> self

\* The field-evaluation trigger that ends the click and the amplitude
\* handlers: plot_evoked when the dipole is ready, then the closing toggle,
\* which an exception of plot_evoked skips.
evaluate_and_finish(self, outcome) ==
    IF dipole_ready(self.state)
    THEN LET s == plot_evoked(self, outcome)
         IN  IF s.raised THEN s ELSE toggle_updating_state(s)
    ELSE toggle_updating_state(self)

\* Mutant of handle_slice_click: the click outside any axes returns without
\* toggling the busy flag back.
handle_slice_click_without_toggle_back(self, event, outcome) ==
    IF event.button # "LEFT"
    THEN self
    ELSE LET s1 == toggle_updating_state(self)
         IN  IF event.inaxes = "None"
             THEN s1
             ELSE LET s2 == click_dispatch(s1, clicked_axis(event.inaxes),
                                           event.xdata, event.ydata)
                      s3 == plot_dipole_markers_and_arrow(s2)
                  IN  evaluate_and_finish(s3, outcome)

\* Mutant of handle_slice_click: a click that arrives while the busy flag is
\* set is dropped.
handle_slice_click_gated(self, event, outcome) ==
    IF event.button # "LEFT" \/ self.state.updating
    THEN self
    ELSE LET s1 == toggle_updating_state(self)
         IN  IF event.inaxes = "None"
             THEN toggle_updating_state(s1)
             ELSE LET s2 == click_dispatch(s1, clicked_axis(event.inaxes),
                                           event.xdata, event.ydata)
                      s3 == plot_dipole_markers_and_arrow(s2)
                  IN  evaluate_and_finish(s3, outcome)

\* App._handle_slice_click.  The handler is wrapped by output_widget.capture:
\* an exception of plot_evoked ends its body where it is raised and goes to
\* the output area; nothing undoes what the body did before.
handle_slice_click(self, event, outcome) ==
    IF event.button # "LEFT"
    THEN self
    ELSE LET s1 == toggle_updating_state(self)
         IN  IF event.inaxes = "None"
             THEN toggle_updating_state(s1)
             ELSE LET s2 == click_dispatch(s1, clicked_axis(event.inaxes),
                                           event.xdata, event.ydata)
                      s3 == plot_dipole_markers_and_arrow(s2)
                  IN  evaluate_and_finish(s3, outcome)

\* Mutant of handle_amp_change: the field-evaluation trigger is missing.
handle_amp_change_without_trigger(self, new, outcome) ==
    LET s1 == toggle_updating_state(self)
        s2 == [s1 EXCEPT !.widget.amplitude_slider.disabled = TRUE]
        s3 == [observe(s2) EXCEPT
                  !.state.dipole_amplitude = times_1e_minus9(new)]
        s4 == toggle_updating_state(s3)
    IN  [s4 EXCEPT !.widget.amplitude_slider.disabled = FALSE]

\* Mutant of handle_amp_change: the slider is enabled again before the field
\* evaluation.
handle_amp_change_enabling_early(self, new, outcome) ==
    LET s1 == toggle_updating_state(self)
        s2 == [s1 EXCEPT !.widget.amplitude_slider.disabled = TRUE]
        s3 == [observe(s2) EXCEPT
                  !.state.dipole_amplitude = times_1e_minus9(new),
                  !.widget.amplitude_slider.disabled = FALSE]
    IN  evaluate_and_finish(s3, outcome)

\* App._handle_amp_change
handle_amp_change(self, new, outcome) ==
    LET s1 == toggle_updating_state(self)
        s2 == [s1 EXCEPT !.widget.amplitude_slider.disabled = TRUE]
        s3 == [observe(s2) EXCEPT
                  !.state.dipole_amplitude = times_1e_minus9(new)]
        s4 == evaluate_and_finish(s3, outcome)
    IN  IF s4.raised
        THEN s4
        ELSE [s4 EXCEPT !.widget.amplitude_slider.disabled = FALSE]

\* widget['amplitude_slider'].value = v: the value trait casts to int and
\* clamps to [min, max]; the observer registered in _init_widget runs
\* synchronously when the value changes.
set_slider_value(self, v, outcome) ==
    LET c == IF v < SliderMin THEN SliderMin
             ELSE IF v > SliderMax THEN SliderMax ELSE v
    IN  IF c = self.widget.amplitude_slider.value
        THEN self
        ELSE handle_amp_change(
                 [self EXCEPT !.widget.amplitude_slider.value = c],
                 c, outcome)

\* Mutant of handle_reset_button_click: the slider is restored before the
\* state is reinitialized.
handle_reset_button_click_slider_first(self, outcome) ==
    LET s1 == remove_dipole_arrows(self)
        s2 == remove_dipole_pos_markers(s1)
        s3 == remove_dipole_ori_markers(s2)
        s4 == set_slider_value(s3, int_times_1e9(init_state.dipole_amplitude),
                               outcome)
    IN  IF s4.raised THEN s4 ELSE [observe(s4) EXCEPT !.state = init_state]

\* Mutant of handle_reset_button_click: the slider is not restored.
handle_reset_button_click_without_slider(self, outcome) ==
    LET s1 == remove_dipole_arrows(self)
        s2 == remove_dipole_pos_markers(s1)
        s3 == remove_dipole_ori_markers(s2)
    IN  [observe(s3) EXCEPT !.state = init_state]

\* App._handle_reset_button_click
handle_reset_button_click(self, outcome) ==
    LET s1 == remove_dipole_arrows(self)
        s2 == remove_dipole_pos_markers(s1)
        s3 == remove_dipole_ori_markers(s2)
        s4 == [observe(s3) EXCEPT !.state = init_state]
    IN  set_slider_value(s4, int_times_1e9(s4.state.dipole_amplitude), outcome)

\* Mutant of set_view_mode: entering the origin mode forgets the dipole
\* orientation.
set_view_mode_clearing_orientation(self, new_mode) ==
    LET s == observe(self)
    IN  CASE new_mode = "Slice Browser" ->
                [s EXCEPT !.state.mode = "slice_browser"]
          [] new_mode = "Set Dipole Origin" ->
                [s EXCEPT !.state.mode = "set_dipole_pos",
                          !.state.dipole_ori = init_state.dipole_ori]
          [] new_mode = "Set Dipole Orientation" ->
                [s EXCEPT !.state.mode = "set_dipole_ori"]
          [] OTHER -> self

\* Mutant of set_view_mode: entering the slice browser recentres the slices
\* and the crosshair.
set_view_mode_recentring(self, new_mode) ==
    LET s == observe(self)
    IN  CASE new_mode = "Slice Browser" ->
                [s EXCEPT !.state.mode = "slice_browser",
                          !.state.slice_coord = init_state.slice_coord,
                          !.state.crosshair_pos = init_state.crosshair_pos,
                          !.state.label_text = init_state.label_text]
          [] new_mode = "Set Dipole Origin" ->
                [s EXCEPT !.state.mode = "set_dipole_pos"]
          [] new_mode = "Set Dipole Orientation" ->
                [s EXCEPT !.state.mode = "set_dipole_ori"]
          [] OTHER -> self

\* App._set_view_mode
set_view_mode(self, new_mode) ==
    LET s == observe(self)
    IN  CASE new_mode = "Slice Browser" ->
                [s EXCEPT !.state.mode = "slice_browser"]
          [] new_mode = "Set Dipole Origin" ->
                [s EXCEPT !.state.mode = "set_dipole_pos"]
          [] new_mode = "Set Dipole Orientation" ->
                [s EXCEPT !.state.mode = "set_dipole_ori"]
          [] OTHER -> self

\* App._handle_view_mode_change
handle_view_mode_change(self, new) == set_view_mode(self, new)

(* ------------------------- events and actions -------------------------- *)

\* The record of the last event: what was delivered (kind, button, inaxes,
\* xdata, ydata, new) and what its handler did (calls, busy_seen, raised).
\* For a reset it also keeps whether the dipole was ready and where the
\* slider stood when the button was pressed, for a mode change the mode the
\* state was in when the option was selected.
NoEvent ==
    [kind |-> "init", button |-> "None", inaxes |-> "None",
     xdata |-> 0, ydata |-> 0, new |-> "None",
     was_ready |-> FALSE, old_slider |-> 0, old_mode |-> "None",
     calls |-> <<>>, busy_seen |-> {}, drawn |-> {}, raised |-> FALSE]

\* The state the handler leaves, and the record of the event it handled.
Handled(r, e) ==
    /\ state' = r.state
    /\ widget' = r.widget
    /\ markers' = r.markers
    /\ ev' = [e EXCEPT !.calls = r.calls,
                       !.busy_seen = r.busy_seen,
                       !.drawn = r.drawn,
                       !.raised = r.raised]

Init ==
    /\ state = init_state
    /\ widget = init_widget
    /\ markers = init_markers
    /\ ev = NoEvent

\* The clicks delivered: a left click inside the axes of one slice figure at
\* a 2-D data point, a left click outside any axes, and right clicks (outside
\* any axes, and inside the axes of the sagittal figure).
ClickEvents ==
    {[button |-> "LEFT", inaxes |-> a, xdata |-> x, ydata |-> y] :
        a \in Axes, x \in Coords, y \in Coords}
    \cup
    {[button |-> b, inaxes |-> a, xdata |-> 0, ydata |-> 0] :
        b \in {"LEFT", "RIGHT"}, a \in {"None"}}
    \cup
    {[button |-> "RIGHT", inaxes |-> a, xdata |-> 0, ydata |-> 0] : a \in {"x"}}

ClickRecord(event) ==
    [NoEvent EXCEPT !.kind = "click", !.button = event.button,
                    !.inaxes = event.inaxes,
                    !.xdata = event.xdata, !.ydata = event.ydata]

\* A mouse click in one of the three slice figures.  When the handler calls
\* plot_evoked, the call returns or raises.
SliceClick ==
    \E event \in ClickEvents :
        LET r == handle_slice_click(App(state, widget, markers),
                                    event, "return")
        IN  \/ Handled(r, ClickRecord(event))
            \/ /\ r.calls # <<>>
               /\ Handled(handle_slice_click(App(state, widget, markers),
                                             event, "raise"),
                          ClickRecord(event))

\* The value of the amplitude slider changes: the observer of 'value' runs
\* on every change, whether the slider is disabled or not.
AmpChange ==
    \E v \in AmpInputs :
        /\ v # widget.amplitude_slider.value
        /\ LET e == [NoEvent EXCEPT !.kind = "amp", !.new = v]
               r == set_slider_value(App(state, widget, markers), v, "return")
           IN  \/ Handled(r, e)
               \/ /\ r.calls # <<>>
                  /\ Handled(set_slider_value(App(state, widget, markers),
                                              v, "raise"), e)

\* The user presses the Reset button.
ResetClick ==
    LET e == [NoEvent EXCEPT !.kind = "reset",
                             !.was_ready = dipole_ready(state),
                             !.old_slider = widget.amplitude_slider.value]
        r == handle_reset_button_click(App(state, widget, markers), "return")
    IN  IF r.calls = <<>>
        THEN Handled(r, e)
        ELSE \E outcome \in {"return", "raise"} :
                Handled(handle_reset_button_click(
                            App(state, widget, markers), outcome), e)

\* The user selects another option of the mode selector.
ViewModeChange ==
    \E new \in ModeOptions :
        /\ new # widget.mode_selector
        /\ LET w == [widget EXCEPT !.mode_selector = new]
               r == handle_view_mode_change(App(state, w, markers), new)
           IN  Handled(r, [NoEvent EXCEPT !.kind = "mode", !.new = new,
                                          !.old_mode = state.mode])

Next ==
    \/ SliceClick
    \/ AmpChange
    \/ ResetClick
    \/ ViewModeChange

Spec == Init /\ [][Next]_vars

(* ------------------------------ properties ---------------------------- *)

FullyDefined(p) == \A a \in Axes : p[a] # None

\* Both points fully defined and not coordinate-wise identical.
ReadyDipole(s) ==
    /\ FullyDefined(s.dipole_pos)
    /\ FullyDefined(s.dipole_ori)
    /\ \E a \in Axes : s.dipole_pos[a] # s.dipole_ori[a]

LeftClickInAxes(e) ==
    e.kind = "click" /\ e.button = "LEFT" /\ e.inaxes # "None"

IgnoredClick(e) ==
    e.kind = "click" /\ (e.button # "LEFT" \/ e.inaxes = "None")

\* C1: every call of plot_evoked, from the click handler and from the
\* amplitude handler, is handed a state whose dipole position and orientation
\* are both fully defined and not coordinate-wise identical.
C1_EvaluationOnlyWhenReady ==
    \A i \in 1 .. Len(ev.calls) : ReadyDipole(ev.calls[i])

C1_Witness ==
    /\ LeftClickInAxes(ev)
    /\ Len(ev.calls) = 1
    /\ state.mode = "set_dipole_ori"

\* C2 as stated: with the dipole ready, every state-mutating event (left
\* click inside a slice axes, amplitude change, mode change) calls plot_evoked
\* exactly once.
C2_OncePerMutatingEvent ==
    ((LeftClickInAxes(ev) \/ ev.kind = "amp" \/ ev.kind = "mode")
        /\ ReadyDipole(state))
    => Len(ev.calls) = 1

\* C2 amended: a left click inside a slice axes and an amplitude change call
\* plot_evoked exactly once when the dipole is ready in the state the
\* handler's own mutation leaves, and not at all otherwise; a mode change
\* never calls it.
C2_OncePerClickOrAmpChange ==
    /\ (LeftClickInAxes(ev) \/ ev.kind = "amp")
        => Len(ev.calls) = (IF ReadyDipole(state) THEN 1 ELSE 0)
    /\ ev.kind = "mode" => Len(ev.calls) = 0

C2_Witness ==
    /\ ev.kind = "amp"
    /\ Len(ev.calls) = 1
    /\ state.dipole_amplitude.nAm # DefaultAmp_nAm

\* C3: a left click inside a slice axes handled in browsing mode, once the
\* handler has returned, has changed the slice coordinates and the crosshair
\* position of the two in-plane axes of the clicked view at most: the dipole
\* position, orientation and amplitude, the mode, the busy flag, and the
\* coordinate and crosshair of the clicked view's own axis are as before.
C3_BrowsingClickFrame ==
    [][(LeftClickInAxes(ev') /\ state.mode = "slice_browser" /\ ~ev'.raised)
        => /\ state'.dipole_pos = state.dipole_pos
           /\ state'.dipole_ori = state.dipole_ori
           /\ state'.dipole_amplitude = state.dipole_amplitude
           /\ state'.mode = state.mode
           /\ state'.updating = state.updating
           /\ state'.slice_coord[ev'.inaxes] = state.slice_coord[ev'.inaxes]
           /\ state'.crosshair_pos[ev'.inaxes] = state.crosshair_pos[ev'.inaxes]
           /\ \A a \in Axes :
                /\ state'.slice_coord[a].min = state.slice_coord[a].min
                /\ state'.slice_coord[a].max = state.slice_coord[a].max]_vars

C3_Witness ==
    /\ LeftClickInAxes(ev)
    /\ state.mode = "slice_browser"
    /\ ~ev.raised
    /\ Len(ev.calls) = 1
    /\ state.slice_coord.x.val # 0

\* The 3-D point of a click at (x, y) in the slice view of one axis, given
\* the slice coordinates before the click.
ClickedPoint(axis, x, y, slice_coord) ==
    LET idx == get_axis_names_from_slice(axis)
    IN  [a \in Axes |->
            IF a = axis THEN Some(slice_coord[axis].val)
            ELSE IF a = idx.x_idx THEN Some(x) ELSE Some(y)]

\* C4: a left click inside a slice axes runs the handler of the current mode
\* only: in set_dipole_pos it writes the dipole position and leaves the
\* orientation, in set_dipole_ori it writes the orientation and leaves the
\* position, in slice_browser it leaves both; the written point has the two
\* clicked coordinates and, on the clicked view's own axis, that axis's slice
\* coordinate.
C4_ModeDispatch ==
    [][LeftClickInAxes(ev')
        => LET p == ClickedPoint(ev'.inaxes, ev'.xdata, ev'.ydata,
                                 state.slice_coord)
           IN  /\ state.mode = "set_dipole_pos"
                    => /\ state'.dipole_pos = p
                       /\ state'.dipole_ori = state.dipole_ori
                       /\ state'.slice_coord = state.slice_coord
               /\ state.mode = "set_dipole_ori"
                    => /\ state'.dipole_ori = p
                       /\ state'.dipole_pos = state.dipole_pos
                       /\ state'.slice_coord = state.slice_coord
               /\ state.mode = "slice_browser"
                    => /\ state'.dipole_pos = state.dipole_pos
                       /\ state'.dipole_ori = state.dipole_ori]_vars

C4_Witness ==
    /\ LeftClickInAxes(ev)
    /\ ev.inaxes = "z"
    /\ state.mode = "set_dipole_ori"
    /\ state.dipole_ori = [x |-> Some(ev.xdata), y |-> Some(ev.ydata),
                           z |-> Some(1)]
    /\ FullyDefined(state.dipole_pos)

\* C5 as stated: after Reset the state is the exact default record made at
\* construction and every marker handle is cleared.
C5_ResetRestoresDefaults ==
    ev.kind = "reset"
    => /\ state = init_state
       /\ markers = init_markers
       /\ state.dipole_arrows = <<>>

\* C6: the reset handler, the amplitude observer it fires included, never
\* calls plot_evoked.
C6_ResetNeverEvaluates ==
    ev.kind = "reset" => ev.calls = <<>>

\* A reset pressed with a ready dipole and the slider off its default, so
\* that restoring the slider ran the amplitude handler (busy flag seen true).
C6_Witness ==
    /\ ev.kind = "reset"
    /\ ev.was_ready
    /\ ev.old_slider # DefaultAmp_nAm
    /\ TRUE \in ev.busy_seen
    /\ widget.amplitude_slider.value = DefaultAmp_nAm

\* C7 as stated: in every handler (left slice click, amplitude change, reset,
\* mode change) the busy flag is true at every mutation, and false once the
\* handler is over.
C7_BusyDuringEveryHandler ==
    (ev.kind \in {"amp", "reset", "mode"}
        \/ (ev.kind = "click" /\ ev.button = "LEFT"))
    => /\ ev.busy_seen \subseteq {TRUE}
       /\ state.updating = FALSE

\* C8 as stated: the busy flag is true in the state handed to every call of
\* plot_evoked.
C8_BusyDuringEvaluation ==
    \A i \in 1 .. Len(ev.calls) : ev.calls[i].updating = TRUE

\* C9: a click outside any axes, and a click with another button than the
\* left one, is ignored: the state (busy flag included) and the markers are as
\* before, nothing was mutated on the way and plot_evoked was not called.
C9_IgnoredClick ==
    [][IgnoredClick(ev')
        => /\ state' = state
           /\ markers' = markers
           /\ ev'.calls = <<>>
           /\ ev'.busy_seen = {}]_vars

C9_Witness ==
    /\ ev.kind = "click"
    /\ ev.button = "LEFT"
    /\ ev.inaxes = "None"
    /\ state.mode = "set_dipole_pos"
    /\ ReadyDipole(state)

ModeOf(option) ==
    CASE option = "Slice Browser" -> "slice_browser"
      [] option = "Set Dipole Origin" -> "set_dipole_pos"
      [] option = "Set Dipole Orientation" -> "set_dipole_ori"

\* C10: the mode is always one of the three modes, and a mode-selector signal
\* naming an option sets the mode of that option from any state and changes
\* no other field of the state.
C10_ModeTransition ==
    /\ state.mode \in Modes
    /\ [][/\ state'.mode \in Modes
          /\ ev'.kind = "mode"
                => state' = [state EXCEPT !.mode = ModeOf(ev'.new)]]_vars

C10_Witness ==
    /\ ev.kind = "mode"
    /\ state.mode = "slice_browser"
    /\ ReadyDipole(state)
    /\ state.dipole_amplitude.nAm # DefaultAmp_nAm
    /\ state.updating

\* C11: a mode-selector signal naming the mode the state is already in
\* leaves the whole state unchanged, and setting the same mode twice in a row
\* gives the state that setting it once gives.
C11_ModeSwitchIdempotent ==
    /\ [](\A option \in ModeOptions :
            LET once == set_view_mode(App(state, widget, markers), option)
            IN  set_view_mode(once, option).state = once.state)
    /\ [][(ev'.kind = "mode" /\ state.mode = ModeOf(ev'.new))
            => state' = state]_vars

\* The slice browser selected while the state, after a reset and a browsing
\* click, is already in browsing mode.
C11_Witness ==
    /\ ev.kind = "mode"
    /\ ev.old_mode = "slice_browser"
    /\ ev.new = "Slice Browser"
    /\ state.slice_coord.x.val # 0

\* What a handler did, but for the busy flag itself: the flag, the status
\* label that shows it and the flag in the states handed to plot_evoked are
\* blanked.
ButForFlag(r) ==
    [state   |-> [r.state EXCEPT !.updating = FALSE],
     widget  |-> [r.widget EXCEPT !.label_updating = "Ready."],
     markers |-> r.markers,
     calls   |-> [i \in 1 .. Len(r.calls) |->
                    [r.calls[i] EXCEPT !.updating = FALSE]],
     drawn   |-> r.drawn,
     raised  |-> r.raised]

\* The App object with the busy flag as given.
WithFlag(b) == App([state EXCEPT !.updating = b], widget, markers)

\* C12: the busy flag gates no handler: in every state where the flag is
\* true, each click, amplitude change, mode change and reset is processed as
\* it would be from the same state with the flag false (same mutations, same
\* glyphs drawn, same plot_evoked calls); only the flag itself differs.
C12_BusyFlagNeverGates ==
    state.updating
    => \A outcome \in {"return", "raise"} :
        /\ \A event \in ClickEvents :
              ButForFlag(handle_slice_click(WithFlag(TRUE), event, outcome))
            = ButForFlag(handle_slice_click(WithFlag(FALSE), event, outcome))
        /\ \A v \in AmpInputs :
              ButForFlag(set_slider_value(WithFlag(TRUE), v, outcome))
            = ButForFlag(set_slider_value(WithFlag(FALSE), v, outcome))
        /\   ButForFlag(handle_reset_button_click(WithFlag(TRUE), outcome))
           = ButForFlag(handle_reset_button_click(WithFlag(FALSE), outcome))
        /\ \A option \in ModeOptions :
              ButForFlag(handle_view_mode_change(WithFlag(TRUE), option))
            = ButForFlag(handle_view_mode_change(WithFlag(FALSE), option))

\* A left click that arrived with the busy flag true and was handled in full:
\* the dipole orientation written, the field evaluated.
C12_Witness ==
    /\ LeftClickInAxes(ev)
    /\ ev.busy_seen = {FALSE}
    /\ Len(ev.calls) = 1
    /\ ~ev.raised
    /\ state.updating
    /\ state.mode = "set_dipole_ori"

\* C13 as stated: after a click, a position or an orientation marker was
\* drawn only if both the dipole position and orientation are set, and arrows
\* only if the two also differ.
C13_GlyphsOnceBothExist ==
    LeftClickInAxes(ev)
    => /\ ("dipole_pos" \in ev.drawn \/ "dipole_ori" \in ev.drawn)
            => (FullyDefined(state.dipole_pos) /\ FullyDefined(state.dipole_ori))
       /\ "arrows" \in ev.drawn => ReadyDipole(state)

\* C13 amended: a left click inside a slice axes draws the position marker
\* exactly when the dipole position is set, the orientation marker exactly
\* when the orientation is set, and the arrows exactly when both are set and
\* differ; no other event draws a glyph.
C13_GlyphsAsSoonAsSet ==
    IF LeftClickInAxes(ev)
    THEN /\ "dipole_pos" \in ev.drawn <=> FullyDefined(state.dipole_pos)
         /\ "dipole_ori" \in ev.drawn <=> FullyDefined(state.dipole_ori)
         /\ "arrows" \in ev.drawn <=> ReadyDipole(state)
    ELSE ev.drawn = {}

\* The position marker drawn by the click that set the position, before any
\* orientation exists.
C13_Witness ==
    /\ LeftClickInAxes(ev)
    /\ ev.drawn = {"dipole_pos"}
    /\ FullyDefined(state.dipole_pos)
    /\ ~FullyDefined(state.dipole_ori)
    /\ markers.dipole_pos.x # None

\* C14 as stated: between events the mode of the state is the mode of the
\* option selected in the mode selector.
C14_ModeFollowsSelector ==
    state.mode = ModeOf(widget.mode_selector)

\* C15 as stated: a handler whose field evaluation raised leaves the busy flag
\* false and the amplitude slider enabled.
C15_QuiescentAfterFailure ==
    ev.raised
    => /\ ~state.updating
       /\ ~widget.amplitude_slider.disabled

\* C16 as stated: the status label reads 'Updating ...' exactly when the busy
\* flag of the current state is true, and 'Ready.' exactly when it is false.
C16_LabelShowsFlag ==
    /\ widget.label_updating = "Updating ..." <=> state.updating
    /\ widget.label_updating = "Ready." <=> ~state.updating

\* C17: an amplitude change to slider value v leaves the amplitude v nAm (the
\* double v * 1e-9) and the dipole position, orientation, mode, slice
\* coordinates and crosshair as before; every plot_evoked call of the handler
\* sees the slider disabled, and a handler that returns leaves it enabled.
C17_AmpChangeFrame ==
    [][ev'.kind = "amp"
        => /\ state'.dipole_amplitude = times_1e_minus9(ev'.new)
           /\ state'.dipole_amplitude.nAm = ev'.new
           /\ state'.dipole_pos = state.dipole_pos
           /\ state'.dipole_ori = state.dipole_ori
           /\ state'.mode = state.mode
           /\ state'.slice_coord = state.slice_coord
           /\ state'.crosshair_pos = state.crosshair_pos
           /\ \A i \in 1 .. Len(ev'.calls) : ev'.calls[i].slider_disabled
           /\ ~ev'.raised => ~widget'.amplitude_slider.disabled]_vars

C17_Witness ==
    /\ ev.kind = "amp"
    /\ Len(ev.calls) = 1
    /\ ev.calls[1].slider_disabled
    /\ ~ev.raised
    /\ ~widget.amplitude_slider.disabled
    /\ state.dipole_amplitude.nAm = ev.new
    /\ ev.new # DefaultAmp_nAm

\* C18: between events the slider value is the amplitude of the state in nAm:
\* it is the integer int(dipole_amplitude * 1e9) that the slider is built
\* from and reset to, and the amplitude is the double of that many nAm (the
\* literal or the product with 1e-9); after a reset both are 50 nAm, whether
\* the reset moved the slider or not.
C18_SliderShowsAmplitude ==
    /\ widget.amplitude_slider.value = int_times_1e9(state.dipole_amplitude)
    /\ widget.amplitude_slider.value = state.dipole_amplitude.nAm
    /\ ev.kind = "reset" => widget.amplitude_slider.value = DefaultAmp_nAm

\* A reset that moved the slider back and so ran the amplitude handler.
C18_Witness ==
    /\ ev.kind = "reset"
    /\ ev.old_slider # DefaultAmp_nAm
    /\ widget.amplitude_slider.value = DefaultAmp_nAm
    /\ state.dipole_amplitude = times_1e_minus9(DefaultAmp_nAm)

====
